---- MODULE Spec2Model ----
(***************************************************************************)
(* A model of src/common/settings.ts of the ruff VS Code extension: the    *)
(* resolution of the host editor's configuration into settings records     *)
(* (getWorkspaceSettings, getGlobalSettings, getExtensionSettings), the    *)
(* substitution of ${...} variables (resolveVariables) and the change      *)
(* predicate (checkIfConfigurationChanged).                                *)
(*                                                                         *)
(* Representation.  A JavaScript string is a sequence of tokens, so that   *)
(* "${userHome}/x" is <<"${", "userHome", "}", "/x">> and String.replace   *)
(* is a search for a sub-sequence.  A value that may be undefined is a set *)
(* with at most one element: {} is undefined, {v} is the value v.  An      *)
(* object literal ({} for codeAction) is a set of <<path, value>> pairs.   *)
(* Replacement values (paths) hold no "$", so the $-patterns of            *)
(* String.replace never apply.                                             *)
(***************************************************************************)
EXTENDS Naturals, Sequences, FiniteSets, TLC

VARIABLES
    env,        \* process.env: [HOME, USERPROFILE], each undefined or a string
    store,      \* the host's configuration store of the namespace
    value,      \* SpecSubst: the list handed to resolveVariables
    wsArg,      \* SpecSubst: the optional workspace argument (a folder index)
    op,         \* the operation that ran last, with its arguments
    ret,        \* what it returned
    recs,       \* SpecAsync: the record each folder's getWorkspaceSettings resolved to
    settled,    \* SpecAsync: the folders in the order their promises settled
    details,    \* SpecAsync: what getInterpreterDetails settles to, per folder
    pc,         \* SpecAsync: where each folder's getWorkspaceSettings stands
    calls,      \* SpecAsync: the URIs getInterpreterDetails was called with
    promise     \* SpecAsync: state of the promise of getExtensionSettings

vars == <<env, store, value, wsArg, op, ret, details, pc, calls, recs, settled, promise>>

----------------------------------------------------------------------------
(* Bounds of the model *)

NumFolders == 2
MaxPieces == 2
MaxLen == 2
MaxSet == 1

----------------------------------------------------------------------------
(* Optional values *)

None == {}
Some(v) == {v}
The(o) == CHOOSE v \in o : TRUE

\* a ?? b
Coalesce(o, d) == IF o = None THEN d ELSE The(o)

----------------------------------------------------------------------------
(* The host: workspace folders, the process *)

FolderNames == <<"a", "b", "c", "d">>
Folders == 1..NumFolders

\* getWorkspaceFolders(): the open folders, in order
getWorkspaceFolders ==
    [i \in Folders |->
        [name |-> FolderNames[i],
         fsPath |-> <<"/ws/", FolderNames[i]>>,
         uri |-> <<"file://", "/ws/", FolderNames[i]>>]]

\* process.cwd()
ProcessCwd == <<"/cwd">>

\* const home = process.env.HOME || process.env.USERPROFILE
\* (a || b is a when a is truthy, otherwise b; "" and undefined are falsy)
Truthy(o) == o # None /\ The(o) # <<>>
HomeOf(e) == IF Truthy(e.HOME) THEN e.HOME ELSE e.USERPROFILE

----------------------------------------------------------------------------
(* String.prototype.replace(key, value) with a string pattern *)

OccursAt(s, key, i) ==
    /\ i + Len(key) - 1 <= Len(s)
    /\ SubSeq(s, i, i + Len(key) - 1) = key

\* s.indexOf(key), 1-based; 0 when key does not occur
RECURSIVE IndexFrom(_, _, _)
IndexFrom(s, key, i) ==
    IF i + Len(key) - 1 > Len(s) THEN 0
    ELSE IF OccursAt(s, key, i) THEN i
    ELSE IndexFrom(s, key, i + 1)

IndexOf(s, key) == IndexFrom(s, key, 1)

\* s.replace(key, val): the first occurrence only
Replace(s, key, val) ==
    LET i == IndexOf(s, key)
    IN IF i = 0 THEN s
       ELSE SubSeq(s, 1, i - 1) \o val \o SubSeq(s, i + Len(key), Len(s))

----------------------------------------------------------------------------
(* resolveVariables *)

KeyUserHome == <<"${", "userHome", "}">>
KeyWorkspaceFolder == <<"${", "workspaceFolder", "}">>
KeyCwd == <<"${", "cwd", "}">>
KeyNamedFolder(name) == <<"${", "workspaceFolder", ":", name, "}">>

\* The Map of substitutions in insertion order, as a sequence of <<key, value>>.
\* ws is the optional workspace argument: None or Some(folder index).
Substitutions(e, ws) ==
    LET home == HomeOf(e)
        a == IF Truthy(home) THEN <<<<KeyUserHome, The(home)>>>> ELSE <<>>
        b == IF ws # None
             THEN <<<<KeyWorkspaceFolder, getWorkspaceFolders[The(ws)].fsPath>>>>
             ELSE <<>>
        c == <<<<KeyCwd, ProcessCwd>>>>
        d == [i \in Folders |->
                <<KeyNamedFolder(getWorkspaceFolders[i].name),
                  getWorkspaceFolders[i].fsPath>>]
    IN a \o b \o c \o d

\* for (const [key, value] of substitutions) s = s.replace(key, value)
RECURSIVE ReplaceAllKeys(_, _, _)
ReplaceAllKeys(s, subs, k) ==
    IF k > Len(subs) THEN s
    ELSE ReplaceAllKeys(Replace(s, subs[k][1], subs[k][2]), subs, k + 1)

\* a mutant: the list is returned in reverse
ResolveReversed(list, e, ws) ==
    LET subs == Substitutions(e, ws)
    IN [i \in 1..Len(list) |-> ReplaceAllKeys(list[Len(list) + 1 - i], subs, 1)]

resolveVariables(list, e, ws) ==
    LET subs == Substitutions(e, ws)
    IN [i \in 1..Len(list) |-> ReplaceAllKeys(list[i], subs, 1)]

----------------------------------------------------------------------------
(* The inputs of resolveVariables *)

Pieces ==
    { KeyUserHome, KeyWorkspaceFolder, KeyCwd,
      KeyNamedFolder(FolderNames[1]), KeyNamedFolder("zz"), <<"/x">> }

\* the strings made of exactly n pieces
RECURSIVE StringsOf(_)
StringsOf(n) ==
    IF n = 0 THEN {<<>>}
    ELSE {p \o s : p \in Pieces, s \in StringsOf(n - 1)}

\* the lists of exactly len strings that hold at most budget pieces in all
RECURSIVE ListsOf(_, _)
ListsOf(len, budget) ==
    IF len = 0 THEN {<<>>}
    ELSE UNION {{<<s>> \o rest : s \in StringsOf(k),
                                 rest \in ListsOf(len - 1, budget - k)}
                : k \in 0..budget}

InputLists == UNION {ListsOf(len, MaxPieces) : len \in 0..MaxLen}

Envs ==
    [HOME : {None, Some(<<>>), Some(<<"/home">>)},
     USERPROFILE : {None, Some(<<"/users">>)}]

----------------------------------------------------------------------------
(* SpecSubst: resolveVariables applied to every bounded input *)

Idle == [name |-> "idle"]

InitSubst ==
    /\ env \in Envs
    /\ value \in InputLists
    /\ wsArg \in {None} \cup {Some(i) : i \in Folders}
    /\ op = Idle
    /\ ret = None
    /\ store = None
    /\ details = None
    /\ pc = None
    /\ calls = None
    /\ recs = None
    /\ settled = None
    /\ promise = None

\* resolveVariables(value, workspace): value.map builds a new array and the
\* callback rebinds its parameter s, so the argument list is left as it was
ResolveVariables ==
    /\ op = Idle
    /\ op' = [name |-> "resolveVariables"]
    /\ ret' = Some(resolveVariables(value, env, wsArg))
    /\ UNCHANGED <<env, store, value, wsArg, details, pc, calls, recs, settled, promise>>

NextSubst == ResolveVariables

SpecSubst == InitSubst /\ [][NextSubst]_vars

----------------------------------------------------------------------------
(* The host's configuration API: getConfiguration(namespace, scope)        *)

Namespace == "ruff"

\* the keys of the namespace the store holds; logLevel is a key of the
\* extension that this file never reads
StoreKeys ==
    { "args", "path", "interpreter", "importStrategy", "run", "codeAction",
      "enable", "organizeImports", "fixAll", "showNotifications",
      "enableExperimentalFormatter", "logLevel" }

ListHomeCwd == << KeyUserHome \o <<"/bin">>, KeyCwd >>
ListTwice == << KeyWorkspaceFolder \o <<":">> \o KeyWorkspaceFolder >>
ListPython == << <<"/usr/bin/python">> >>
ListDeclared == << <<"--declared">>, KeyCwd >>
ListVenv == << KeyWorkspaceFolder \o <<"/.venv/python">> >>

\* the values a user may give a key
ValuesOf(key) ==
    CASE key \in {"args", "path"} -> {ListHomeCwd, ListTwice}
      [] key = "interpreter" -> {<<>>, ListVenv}
      [] key = "importStrategy" -> {"useBundled"}
      [] key = "run" -> {"onSave"}
      [] key = "codeAction" -> {{<<"fixViolation.enable", FALSE>>}}
      [] key = "showNotifications" -> {"always"}
      [] key = "logLevel" -> {"debug"}
      [] OTHER -> BOOLEAN

\* a default a package manifest may declare for a key; each differs from the
\* default built into this file, so that the two can be told apart
DeclaredDefault(key) ==
    CASE key \in {"args", "path"} -> ListDeclared
      [] key = "interpreter" -> ListPython
      [] key = "importStrategy" -> "useBundled"
      [] key = "run" -> "onSave"
      [] key = "codeAction" -> {<<"disableRuleComment.enable", FALSE>>}
      [] key = "showNotifications" -> "onError"
      [] key = "logLevel" -> "info"
      [] key = "enableExperimentalFormatter" -> TRUE
      [] OTHER -> FALSE

NoValues ==
    [defaultValue |-> None, globalValue |-> None, workspaceValue |-> None,
     workspaceFolderValue |-> [f \in Folders |-> None]]

\* the store in which no user has set anything; declared says whether the
\* manifest declares defaults
EmptyStore(declared) ==
    [key \in StoreKeys |->
        [NoValues EXCEPT !.defaultValue =
            IF declared THEN Some(DeclaredDefault(key)) ELSE None]]

\* where a user may set a value: the user settings, the workspace settings,
\* the settings of one workspace folder
Slots ==
    [key : StoreKeys, level : {"global", "workspace"}, folder : {0}]
    \cup [key : StoreKeys, level : {"folder"}, folder : Folders]

SlotValue(st, slot) ==
    CASE slot.level = "global" -> st[slot.key].globalValue
      [] slot.level = "workspace" -> st[slot.key].workspaceValue
      [] OTHER -> st[slot.key].workspaceFolderValue[slot.folder]

WithSlot(st, slot, o) ==
    CASE slot.level = "global" ->
            [st EXCEPT ![slot.key].globalValue = o]
      [] slot.level = "workspace" ->
            [st EXCEPT ![slot.key].workspaceValue = o]
      [] OTHER ->
            [st EXCEPT ![slot.key].workspaceFolderValue[slot.folder] = o]

\* the stores in which users have set at most n values
RECURSIVE StoresUpTo(_)
StoresUpTo(n) ==
    IF n = 0 THEN {EmptyStore(declared) : declared \in BOOLEAN}
    ELSE LET less == StoresUpTo(n - 1)
         IN less \cup
            UNION {{WithSlot(st, slot, Some(v)) : v \in ValuesOf(slot.key)}
                   : st \in less, slot \in Slots}

SetCount(st) == Cardinality({slot \in Slots : SlotValue(st, slot) # None})

\* config.inspect(key) of getConfiguration(namespace, scope); scope is None
\* or Some(folder index)
ConfigInspect(st, scope, key) ==
    [defaultValue |-> st[key].defaultValue,
     globalValue |-> st[key].globalValue,
     workspaceValue |-> st[key].workspaceValue,
     workspaceFolderValue |->
        IF scope = None THEN None ELSE st[key].workspaceFolderValue[The(scope)]]

\* config.get(key): the most specific value of the scope, undefined if none
ConfigGet(st, scope, key) ==
    LET i == ConfigInspect(st, scope, key)
    IN IF i.workspaceFolderValue # None THEN i.workspaceFolderValue
       ELSE IF i.workspaceValue # None THEN i.workspaceValue
       ELSE IF i.globalValue # None THEN i.globalValue
       ELSE i.defaultValue

----------------------------------------------------------------------------
(* getWorkspaceSettings *)

\* what getInterpreterDetails(uri) may settle to: a rejection, details
\* without a path, details with a path
Outcomes ==
    { [rejects |-> TRUE, path |-> None],
      [rejects |-> FALSE, path |-> None],
      [rejects |-> FALSE, path |-> Some(ListVenv)] }

\* config.get<string[]>("interpreter") of getConfiguration(namespace, scope)
getInterpreterFromSetting(st, f) == ConfigGet(st, Some(f), "interpreter")

\* let interpreter = getInterpreterFromSetting(namespace, workspace) ?? []
InterpreterSetting(st, f) == Coalesce(getInterpreterFromSetting(st, f), <<>>)

\* a mutant: the interpreter is looked up whatever the setting holds
NeedsLookupAlways(st, f) == TRUE

\* if (interpreter.length === 0): the lookup is needed
NeedsLookup(st, f) == Len(InterpreterSetting(st, f)) = 0

\* (await getInterpreterDetails(workspace.uri)).path ?? []
InterpreterOfDetails(d) == Coalesce(d.path, <<>>)

\* a mutant: the configuration is read without the folder's scope
GetOrUnscoped(st, f, key, def) == Coalesce(ConfigGet(st, None, key), def)

\* config.get(key) ?? def, with config = getConfiguration(namespace, workspace.uri)
GetOr(st, f, key, def) == Coalesce(ConfigGet(st, Some(f), key), def)

\* the object literal that getWorkspaceSettings returns
WorkspaceRecord(st, e, f, interpreter) ==
    [cwd |-> getWorkspaceFolders[f].fsPath,
     workspace |-> getWorkspaceFolders[f].uri,
     args |-> resolveVariables(GetOr(st, f, "args", <<>>), e, Some(f)),
     path |-> resolveVariables(GetOr(st, f, "path", <<>>), e, Some(f)),
     interpreter |-> resolveVariables(interpreter, e, Some(f)),
     importStrategy |-> GetOr(st, f, "importStrategy", "fromEnvironment"),
     run |-> GetOr(st, f, "run", "onType"),
     codeAction |-> GetOr(st, f, "codeAction", {}),
     enable |-> GetOr(st, f, "enable", TRUE),
     organizeImports |-> GetOr(st, f, "organizeImports", TRUE),
     fixAll |-> GetOr(st, f, "fixAll", TRUE),
     showNotifications |-> GetOr(st, f, "showNotifications", "off"),
     enableExperimentalFormatter |->
        GetOr(st, f, "enableExperimentalFormatter", FALSE)]

\* getWorkspaceSettings run to its end with the lookup settling to d:
\* None when the promise rejects, the record otherwise
getWorkspaceSettings(st, e, f, d) ==
    IF NeedsLookup(st, f)
    THEN IF d.rejects THEN None
         ELSE Some(WorkspaceRecord(st, e, f, InterpreterOfDetails(d)))
    ELSE Some(WorkspaceRecord(st, e, f, InterpreterSetting(st, f)))

----------------------------------------------------------------------------
(* getGlobalSettings *)

\* a mutant: the effective value of the key is read
GetGlobalValueEffective(st, key, defaultValue) ==
    Coalesce(ConfigGet(st, None, key), defaultValue)

\* inspect?.globalValue ?? inspect?.defaultValue ?? defaultValue
getGlobalValue(st, key, defaultValue) ==
    LET inspect == ConfigInspect(st, None, key)
    IN Coalesce(inspect.globalValue, Coalesce(inspect.defaultValue, defaultValue))

\* a mutant: the lists of the global record are substituted too
GetGlobalSettingsResolved(st, e) ==
    [cwd |-> ProcessCwd,
     workspace |-> ProcessCwd,
     args |-> resolveVariables(getGlobalValue(st, "args", <<>>), e, None),
     path |-> resolveVariables(getGlobalValue(st, "path", <<>>), e, None),
     interpreter |-> <<>>,
     importStrategy |-> getGlobalValue(st, "importStrategy", "fromEnvironment"),
     run |-> getGlobalValue(st, "run", "onType"),
     codeAction |-> getGlobalValue(st, "codeAction", {}),
     enable |-> getGlobalValue(st, "enable", TRUE),
     organizeImports |-> getGlobalValue(st, "organizeImports", TRUE),
     fixAll |-> getGlobalValue(st, "fixAll", TRUE),
     showNotifications |-> getGlobalValue(st, "showNotifications", "off"),
     enableExperimentalFormatter |->
        getGlobalValue(st, "enableExperimentalFormatter", FALSE)]

getGlobalSettings(st, e) ==
    [cwd |-> ProcessCwd,
     workspace |-> ProcessCwd,
     args |-> getGlobalValue(st, "args", <<>>),
     path |-> getGlobalValue(st, "path", <<>>),
     interpreter |-> <<>>,
     importStrategy |-> getGlobalValue(st, "importStrategy", "fromEnvironment"),
     run |-> getGlobalValue(st, "run", "onType"),
     codeAction |-> getGlobalValue(st, "codeAction", {}),
     enable |-> getGlobalValue(st, "enable", TRUE),
     organizeImports |-> getGlobalValue(st, "organizeImports", TRUE),
     fixAll |-> getGlobalValue(st, "fixAll", TRUE),
     showNotifications |-> getGlobalValue(st, "showNotifications", "off"),
     enableExperimentalFormatter |->
        getGlobalValue(st, "enableExperimentalFormatter", FALSE)]

----------------------------------------------------------------------------
(* checkIfConfigurationChanged *)

\* A ConfigurationChangeEvent is the set of the changed keys, each the
\* sequence of its dotted segments.  e.affectsConfiguration(section): the
\* section is a changed key or an ancestor of one.
IsPrefix(p, k) == Len(p) <= Len(k) /\ SubSeq(k, 1, Len(p)) = p
affectsConfiguration(e, section) == \E k \in e : IsPrefix(section, k)

\* a mutant: the key added last is missing from the list
SettingsWithoutFormatter(namespace) ==
    << <<namespace, "args">>, <<namespace, "codeAction">>,
       <<namespace, "enable">>, <<namespace, "fixAll">>,
       <<namespace, "importStrategy">>, <<namespace, "interpreter">>,
       <<namespace, "organizeImports">>, <<namespace, "path">>,
       <<namespace, "run">>, <<namespace, "showNotifications">> >>

\* a mutant: interpreter is missing from the list
SettingsWithoutInterpreter(namespace) ==
    << <<namespace, "args">>, <<namespace, "codeAction">>,
       <<namespace, "enable">>, <<namespace, "fixAll">>,
       <<namespace, "importStrategy">>,
       <<namespace, "organizeImports">>, <<namespace, "path">>,
       <<namespace, "run">>, <<namespace, "showNotifications">>,
       <<namespace, "enableExperimentalFormatter">> >>

\* const settings = [`${namespace}.args`, ...]
settings(namespace) ==
    << <<namespace, "args">>, <<namespace, "codeAction">>,
       <<namespace, "enable">>, <<namespace, "fixAll">>,
       <<namespace, "importStrategy">>, <<namespace, "interpreter">>,
       <<namespace, "organizeImports">>, <<namespace, "path">>,
       <<namespace, "run">>, <<namespace, "showNotifications">>,
       <<namespace, "enableExperimentalFormatter">> >>

\* settings.some((s) => e.affectsConfiguration(s))
checkIfConfigurationChanged(e, namespace) ==
    \E i \in 1..Len(settings(namespace)) :
        affectsConfiguration(e, settings(namespace)[i])

----------------------------------------------------------------------------
(* SpecConfig: the user edits the configuration, the host delivers the     *)
(* change event to checkIfConfigurationChanged, and the settings are read  *)

\* the key a change of a setting reports: codeAction is an object whose
\* members are settings of their own
ChangedKey(key) ==
    IF key = "codeAction" THEN <<Namespace, "codeAction", "fixViolation">>
    ELSE <<Namespace, key>>

\* events about other extensions' settings
OtherEvents ==
    { {<<"python", "args">>}, {<<"python", "linting", Namespace, "args">>} }

\* SpecConfig runs with a home directory; SpecAsync with and without one
ConfigEnvs == { [HOME |-> Some(<<"/home">>), USERPROFILE |-> None] }

AsyncEnvs ==
    { [HOME |-> Some(<<"/home">>), USERPROFILE |-> None],
      [HOME |-> None, USERPROFILE |-> None] }

InitConfig ==
    /\ env \in ConfigEnvs
    /\ store \in StoresUpTo(MaxSet)
    /\ op = Idle
    /\ ret = None
    /\ value = None
    /\ wsArg = None
    /\ details = None
    /\ pc = None
    /\ calls = None
    /\ recs = None
    /\ settled = None
    /\ promise = None

ConfigFrame == UNCHANGED <<env, value, wsArg, details, pc, calls, recs, settled, promise>>

Deliver(e) ==
    /\ op' = [name |-> "checkIfConfigurationChanged", e |-> e]
    /\ ret' = Some(checkIfConfigurationChanged(e, Namespace))

UpdateSetting ==
    /\ op = Idle
    /\ SetCount(store) < MaxSet
    /\ \E slot \in Slots : \E v \in ValuesOf(slot.key) :
        /\ SlotValue(store, slot) = None
        /\ store' = WithSlot(store, slot, Some(v))
        /\ Deliver({ChangedKey(slot.key)})
        /\ ConfigFrame

RemoveSetting ==
    \E slot \in Slots :
        /\ op = Idle
        /\ SlotValue(store, slot) # None
        /\ store' = WithSlot(store, slot, None)
        /\ Deliver({ChangedKey(slot.key)})
        /\ ConfigFrame

OtherSettingsChanged ==
    \E e \in OtherEvents :
        /\ op = Idle
        /\ Deliver(e)
        /\ UNCHANGED store
        /\ ConfigFrame

GetGlobalSettings ==
    /\ op = Idle
    /\ op' = [name |-> "getGlobalSettings"]
    /\ ret' = Some(getGlobalSettings(store, env))
    /\ UNCHANGED store
    /\ ConfigFrame

GetWorkspaceSettings ==
    \E f \in Folders : \E d \in Outcomes :
        /\ op = Idle
        /\ op' = [name |-> "getWorkspaceSettings", folder |-> f, lookup |-> d]
        /\ ret' = getWorkspaceSettings(store, env, f, d)
        /\ UNCHANGED store
        /\ ConfigFrame

NextConfig ==
    \/ UpdateSetting
    \/ RemoveSetting
    \/ OtherSettingsChanged
    \/ GetGlobalSettings
    \/ GetWorkspaceSettings

SpecConfig == InitConfig /\ [][NextConfig]_vars

----------------------------------------------------------------------------
(* SpecAsync: getExtensionSettings, with the interpreter lookups of the    *)
(* folders settling in any order.  The configuration, the environment and  *)
(* the folders stay as they are while the call is in flight.               *)

\* a mutant: the values come in the order in which the promises settled
\* pcs: where each folder stands, rs: its record, order: the settling order
PromiseAllInSettlingOrder(pcs, rs, order) ==
    IF \E f \in Folders : pcs[f] = "failed"
    THEN [state |-> "rejected", value |-> None]
    ELSE IF \A f \in Folders : pcs[f] = "done"
    THEN [state |-> "resolved",
          value |-> Some([i \in Folders |-> The(rs[order[i]])])]
    ELSE [state |-> "pending", value |-> None]

\* a mutant: Promise.allSettled, which waits for all and never rejects
PromiseAllSettled(pcs, rs, order) ==
    IF \A f \in Folders : pcs[f] \in {"done", "failed"}
    THEN [state |-> "resolved",
          value |-> Some([i \in Folders |-> rs[i]])]
    ELSE [state |-> "pending", value |-> None]

\* Promise.all over the folders' promises: rejected as soon as one of them
\* is, resolved with the values in the order of the folders once all are
PromiseAll(pcs, rs, order) ==
    IF \E f \in Folders : pcs[f] = "failed"
    THEN [state |-> "rejected", value |-> None]
    ELSE IF \A f \in Folders : pcs[f] = "done"
    THEN [state |-> "resolved", value |-> Some([i \in Folders |-> The(rs[i])])]
    ELSE [state |-> "pending", value |-> None]

\* the folders in the order of getWorkspaceFolders()
FolderSeq == [i \in 1..NumFolders |-> i]

\* the stores in which each folder sets the interpreter or does not
AsyncStores ==
    LET base == [EmptyStore(FALSE) EXCEPT !["args"].globalValue = Some(ListHomeCwd)]
    IN { [base EXCEPT !["interpreter"].workspaceFolderValue = choice]
         : choice \in [Folders -> {None, Some(<<>>), Some(ListVenv)}] }

InitAsync ==
    /\ env \in AsyncEnvs
    /\ store \in AsyncStores
    /\ details \in [Folders -> Outcomes]
    /\ op = Idle
    /\ ret = None
    /\ pc = [f \in Folders |-> "idle"]
    /\ recs = [f \in Folders |-> None]
    /\ calls = <<>>
    /\ settled = <<>>
    /\ promise = "none"
    /\ value = None
    /\ wsArg = None

AsyncFrame == UNCHANGED <<env, store, value, wsArg, details>>

\* getExtensionSettings(namespace): map calls getWorkspaceSettings for each
\* folder in turn; each call runs to its await, or to its end when the
\* setting names an interpreter
GetExtensionSettings ==
    /\ op = Idle
    /\ op' = [name |-> "getExtensionSettings"]
    /\ pc' = [f \in Folders |->
                IF NeedsLookup(store, f) THEN "awaiting" ELSE "done"]
    /\ calls' = LET Looked(f) == NeedsLookup(store, f)
                    fs == SelectSeq(FolderSeq, Looked)
                IN [i \in 1..Len(fs) |-> getWorkspaceFolders[fs[i]].uri]
    /\ recs' = [f \in Folders |->
                IF NeedsLookup(store, f) THEN None
                ELSE Some(WorkspaceRecord(store, env, f, InterpreterSetting(store, f)))]
    /\ settled' = LET Ready(f) == ~NeedsLookup(store, f)
                  IN SelectSeq(FolderSeq, Ready)
    /\ promise' = "pending"
    /\ UNCHANGED ret
    /\ AsyncFrame

\* the lookup of folder f resolves: the rest of getWorkspaceSettings runs
LookupResolves ==
    \E f \in Folders :
        /\ pc[f] = "awaiting"
        /\ ~details[f].rejects
        /\ pc' = [pc EXCEPT ![f] = "done"]
        /\ recs' = [recs EXCEPT ![f] =
                Some(WorkspaceRecord(store, env, f, InterpreterOfDetails(details[f])))]
        /\ settled' = Append(settled, f)
        /\ UNCHANGED <<op, ret, calls, promise>>
        /\ AsyncFrame

\* the lookup of folder f rejects: getWorkspaceSettings rejects at its await
LookupRejects ==
    \E f \in Folders :
        /\ pc[f] = "awaiting"
        /\ details[f].rejects
        /\ pc' = [pc EXCEPT ![f] = "failed"]
        /\ settled' = Append(settled, f)
        /\ UNCHANGED <<op, ret, calls, recs, promise>>
        /\ AsyncFrame

\* the promise of getExtensionSettings settles
PromiseSettles ==
    /\ promise = "pending"
    /\ PromiseAll(pc, recs, settled).state # "pending"
    /\ promise' = PromiseAll(pc, recs, settled).state
    /\ ret' = PromiseAll(pc, recs, settled).value
    /\ UNCHANGED <<op, calls, pc, recs, settled>>
    /\ AsyncFrame

NextAsync ==
    \/ GetExtensionSettings
    \/ LookupResolves
    \/ LookupRejects
    \/ PromiseSettles

SpecAsync == InitAsync /\ [][NextAsync]_vars

----------------------------------------------------------------------------
(* What the claims speak of *)

Occurs(key, s) == \E i \in 1..Len(s) : OccursAt(s, key, i)

\* HOME or USERPROFILE is set (to something)
HomeIsSet(e) == Truthy(e.HOME) \/ Truthy(e.USERPROFILE)

\* the placeholders that have a value when resolveVariables is given the
\* workspace ws (None or Some(folder))
ValuedKeys(e, ws) ==
    (IF HomeIsSet(e) THEN {KeyUserHome} ELSE {})
    \cup (IF ws # None THEN {KeyWorkspaceFolder} ELSE {})
    \cup {KeyCwd}
    \cup {KeyNamedFolder(FolderNames[i]) : i \in Folders}

ListFields == {"args", "path", "interpreter"}

ScalarKeys ==
    { "importStrategy", "run", "codeAction", "enable", "organizeImports",
      "fixAll", "showNotifications", "enableExperimentalFormatter" }

RecordFields ==
    {"cwd", "workspace"} \cup ListFields \cup ScalarKeys

\* the defaults the record falls back to, as the claims list them
BuiltinDefault(key) ==
    CASE key \in {"args", "path"} -> <<>>
      [] key = "importStrategy" -> "fromEnvironment"
      [] key = "run" -> "onType"
      [] key = "codeAction" -> {}
      [] key = "showNotifications" -> "off"
      [] key = "enableExperimentalFormatter" -> FALSE
      [] OTHER -> TRUE

IsWorkspaceRecord == op.name = "getWorkspaceSettings" /\ ret # None
IsGlobalRecord == op.name = "getGlobalSettings"
IsCheck == op.name = "checkIfConfigurationChanged"

----------------------------------------------------------------------------
(* C1: in the record getWorkspaceSettings returns, no string of args, path *)
(* or interpreter holds an occurrence of a placeholder that has a value:   *)
(* ${userHome} (HOME or USERPROFILE set), ${workspaceFolder}, ${cwd} and   *)
(* ${workspaceFolder:<name>} of each open folder, also when a placeholder  *)
(* occurs more than once in a string.                                      *)
C1_SubstitutionComplete ==
    IsWorkspaceRecord =>
        \A field \in ListFields :
            \A i \in 1..Len(The(ret)[field]) :
                \A key \in ValuedKeys(env, Some(op.folder)) :
                    ~Occurs(key, The(ret)[field][i])

(* C2: the record of getWorkspaceSettings has every field; a key without a *)
(* value in the folder's configuration gives the built-in default, a key   *)
(* with a value gives that value (args and path after substitution).       *)
C2_FullyPopulated ==
    IsWorkspaceRecord =>
        LET rec == The(ret)
            Configured(key) == ConfigGet(store, Some(op.folder), key)
            Expected(key) ==
                IF Configured(key) = None THEN BuiltinDefault(key)
                ELSE The(Configured(key))
        IN /\ DOMAIN rec = RecordFields
           /\ \A key \in ScalarKeys : rec[key] = Expected(key)
           /\ \A key \in {"args", "path"} :
                rec[key] = resolveVariables(Expected(key), env, Some(op.folder))

C2_Witness ==
    /\ IsWorkspaceRecord
    /\ ConfigGet(store, Some(op.folder), "enable") = Some(FALSE)
    /\ store["enable"].workspaceFolderValue[op.folder] = Some(FALSE)
    /\ ConfigGet(store, Some(op.folder), "run") = None
    /\ The(ret).enable = FALSE
    /\ The(ret).run = "onType"

(* C3: each key of the global record is the user-global value if one is    *)
(* set, otherwise the declared default, otherwise the built-in default; a  *)
(* value set for the workspace or for a folder plays no part.              *)
GlobalKeys == {"args", "path"} \cup ScalarKeys

C3_GlobalPrecedence ==
    IsGlobalRecord =>
        \A key \in GlobalKeys :
            The(ret)[key] =
                IF store[key].globalValue # None THEN The(store[key].globalValue)
                ELSE IF store[key].defaultValue # None
                     THEN The(store[key].defaultValue)
                     ELSE BuiltinDefault(key)

C3_Witness ==
    /\ IsGlobalRecord
    /\ \E key \in GlobalKeys :
        /\ store[key].workspaceValue # None
        /\ store[key].defaultValue # None
        /\ The(ret)[key] = The(store[key].defaultValue)
        /\ The(ret)[key] # The(store[key].workspaceValue)

(* C4: checkIfConfigurationChanged(e, namespace) is true exactly when e    *)
(* affects one of the eleven keys of the namespace.                        *)
ElevenKeys ==
    { "args", "codeAction", "enable", "fixAll", "importStrategy",
      "interpreter", "organizeImports", "path", "run", "showNotifications",
      "enableExperimentalFormatter" }

C4_ChangedIffAffected ==
    IsCheck =>
        (The(ret) <=>
            \E key \in ElevenKeys : affectsConfiguration(op.e, <<Namespace, key>>))

C4_Witness ==
    /\ IsCheck
    /\ op.e = {<<Namespace, "logLevel">>}
    /\ ret = Some(FALSE)

(* C5, as stated: no string of args or path of the global record holds an  *)
(* unresolved ${userHome} (HOME or USERPROFILE set) or ${cwd}.             *)
C5_GlobalSubstituted ==
    IsGlobalRecord =>
        \A field \in {"args", "path"} :
            \A i \in 1..Len(The(ret)[field]) :
                /\ HomeIsSet(env) => ~Occurs(KeyUserHome, The(ret)[field][i])
                /\ ~Occurs(KeyCwd, The(ret)[field][i])

(* C5, amended: getGlobalSettings substitutes nothing: args and path of    *)
(* the global record are the configured strings as they stand, their       *)
(* placeholders included.                                                  *)
C5_GlobalVerbatim ==
    IsGlobalRecord =>
        \A field \in {"args", "path"} :
            LET configured ==
                    IF store[field].globalValue # None THEN store[field].globalValue
                    ELSE store[field].defaultValue
            IN /\ configured # None => The(ret)[field] = The(configured)
               /\ configured = None => The(ret)[field] = <<>>

C5_Witness ==
    /\ IsGlobalRecord
    /\ HomeIsSet(env)
    /\ store["args"].globalValue = Some(ListHomeCwd)
    /\ Occurs(KeyUserHome, The(ret).args[1])
    /\ Occurs(KeyCwd, The(ret).args[2])

(* C6: getExtensionSettings resolves to one record per folder, the i-th    *)
(* with cwd and workspace of the i-th folder, and the list is fixed by the *)
(* configuration, the environment and what each lookup answers, whatever   *)
(* the order in which the lookups complete.                                *)
C6_OrderIndependent ==
    promise = "resolved" =>
        /\ ret # None
        /\ Len(The(ret)) = NumFolders
        /\ \A i \in Folders :
            /\ The(ret)[i].cwd = getWorkspaceFolders[i].fsPath
            /\ The(ret)[i].workspace = getWorkspaceFolders[i].uri
            /\ Some(The(ret)[i]) = getWorkspaceSettings(store, env, i, details[i])

\* two lookups were pending and the one of the later folder completed first
C6_Witness ==
    /\ promise = "resolved"
    /\ Len(calls) >= 2
    /\ \E i, j \in 1..Len(settled) : i < j /\ settled[i] > settled[j]

(* C7: a non-empty interpreter setting is the record's interpreter (after  *)
(* substitution) and getInterpreterDetails is not called for the folder;   *)
(* an absent or empty setting has it called exactly once with the folder's *)
(* URI, and the record's interpreter is its path (after substitution), or  *)
(* [] when it reports none.                                                *)
CallsFor(f) ==
    Cardinality({i \in 1..Len(calls) : calls[i] = getWorkspaceFolders[f].uri})

C7_InterpreterFallback ==
    promise # "none" =>
        \A f \in Folders :
            LET setting == ConfigGet(store, Some(f), "interpreter")
            IN IF setting # None /\ Len(The(setting)) > 0
               THEN /\ CallsFor(f) = 0
                    /\ pc[f] = "done"
                    /\ The(recs[f]).interpreter =
                            resolveVariables(The(setting), env, Some(f))
               ELSE /\ CallsFor(f) = 1
                    /\ pc[f] = "done" =>
                        The(recs[f]).interpreter =
                            IF details[f].path = None THEN <<>>
                            ELSE resolveVariables(The(details[f].path), env, Some(f))

\* one folder sets an interpreter, another has it looked up and found
C7_Witness ==
    /\ promise = "resolved"
    /\ \E f, g \in Folders :
        /\ ConfigGet(store, Some(f), "interpreter") = Some(ListVenv)
        /\ CallsFor(f) = 0
        /\ ConfigGet(store, Some(g), "interpreter") = Some(<<>>)
        /\ CallsFor(g) = 1
        /\ details[g].path # None
        /\ The(recs[g]).interpreter = <<getWorkspaceFolders[g].fsPath \o <<"/.venv/python">>>>

(* C8: the keys checkIfConfigurationChanged tests are the keys whose value *)
(* can change a record of getWorkspaceSettings or getGlobalSettings, and a *)
(* configuration change that alters a record is reported as changed.       *)
\* some settings record differs between the stores st1 and st2
Altered(st1, st2) ==
    \/ getGlobalSettings(st1, env) # getGlobalSettings(st2, env)
    \/ \E f \in Folders, d \in Outcomes :
            getWorkspaceSettings(st1, env, f, d) # getWorkspaceSettings(st2, env, f, d)

TestedKeys == {settings(Namespace)[i][2] : i \in 1..Len(settings(Namespace))}

HomeEnv == CHOOSE e \in ConfigEnvs : TRUE

\* the keys for which a value, set for folder 1 or by the user, changes a record
KeysReadByWorkspace ==
    { key \in StoreKeys :
        \E v \in ValuesOf(key), d \in Outcomes :
            getWorkspaceSettings(
                WithSlot(EmptyStore(FALSE),
                         [key |-> key, level |-> "folder", folder |-> 1],
                         Some(v)),
                HomeEnv, 1, d)
            # getWorkspaceSettings(EmptyStore(FALSE), HomeEnv, 1, d) }

KeysReadByGlobal ==
    { key \in StoreKeys :
        \E v \in ValuesOf(key) :
            getGlobalSettings(
                WithSlot(EmptyStore(FALSE),
                         [key |-> key, level |-> "global", folder |-> 0],
                         Some(v)),
                HomeEnv)
            # getGlobalSettings(EmptyStore(FALSE), HomeEnv) }

C8_ChangesReported ==
    [][ store' # store =>
            /\ TestedKeys = KeysReadByWorkspace
            /\ KeysReadByGlobal \subseteq TestedKeys
            /\ Altered(store, store')
                    => (op'.name = "checkIfConfigurationChanged" /\ ret' = Some(TRUE))
      ]_vars

\* the interpreter of a folder was just set, its record changed with it
C8_Witness ==
    /\ IsCheck
    /\ op.e = {<<Namespace, "interpreter">>}
    /\ ret = Some(TRUE)
    /\ \E f \in Folders :
        /\ store["interpreter"].workspaceFolderValue[f] = Some(ListVenv)
        /\ Altered(store, WithSlot(store,
                [key |-> "interpreter", level |-> "folder", folder |-> f], None))

\* what C9 says of the returned list
C9_StatePart ==
    op.name = "resolveVariables" =>
        /\ Len(The(ret)) = Len(value)
        /\ \A i \in 1..Len(value) :
            /\ The(ret)[i] = resolveVariables(<<value[i]>>, env, wsArg)[1]
            /\ (\A key \in ValuedKeys(env, wsArg) : ~Occurs(key, value[i]))
                    => The(ret)[i] = value[i]

(* C9: resolveVariables returns a list of the same length, element i made  *)
(* from element i alone, leaves its argument as it was, and returns        *)
(* unchanged every element that holds no placeholder with a value.         *)
C9_OnlyPlaceholders == [](C9_StatePart) /\ [][value' = value]_vars

\* ${userHome} without a home stays, next to an element that is substituted
C9_Witness ==
    /\ op.name = "resolveVariables"
    /\ ~HomeIsSet(env)
    /\ wsArg = None
    /\ value = <<KeyUserHome, KeyCwd>>
    /\ The(ret) = <<KeyUserHome, ProcessCwd>>

(* C10: when the lookup of one folder rejects, the promise of              *)
(* getExtensionSettings rejects and delivers no list, whatever the other   *)
(* lookups do; when none rejects it resolves.                              *)
C10_AllOrNothing ==
    /\ (\E f \in Folders : pc[f] = "failed")
            => (promise \in {"pending", "rejected"} /\ ret = None)
    /\ promise = "rejected" => (\E f \in Folders : pc[f] = "failed")
    /\ (promise = "pending" /\ \A f \in Folders : pc[f] \in {"done", "failed"})
            => ENABLED PromiseSettles
    /\ (promise \notin {"none", "pending"} /\ \A f \in Folders : pc[f] = "done")
            => (promise = "resolved" /\ ret # None)

\* one lookup rejected, another resolved: no list
C10_Witness ==
    /\ promise = "rejected"
    /\ ret = None
    /\ \E f, g \in Folders :
        /\ pc[f] = "failed"
        /\ pc[g] = "done"
        /\ g \in {settled[i] : i \in 1..Len(settled)}
        /\ details[g].rejects = FALSE
        /\ NeedsLookup(store, g)

====
